---- MODULE Spec2Model ----
\* Model of main.ts: the fixed-window rate limiter (checkRateLimit and the
\* periodic cleanup) and the request handler passed to serve(), run on a
\* single-threaded cooperative event loop.  One action is one synchronous
\* segment of the program: it runs from one suspension point (await) to the
\* next, or to the return of the handler.
\*
\* Times are in clock units ("milliseconds").  The configuration values are
\* scaled down so that the state space is finite: the window is RATE_WINDOW
\* units long, a second is MsPerSec units long (1000 in main.ts), and the
\* limit is RATE_LIMIT requests (50 in main.ts).
EXTENDS Integers, Sequences, FiniteSets, TLC

\* ---------------------------------------------------------------- bounds
MaxReq == 2          \* requests received in one behaviour of Spec
MaxBurst == 4        \* requests received in one behaviour of BurstSpec
MaxTime == 5         \* the clock stops advancing at this value
MaxSkew == 1         \* most the clock advances inside one synchronous segment
MaxLong == 4         \* requests received in one behaviour of LongSpec
MaxIdent == 3        \* requests received in one behaviour of IdentSpec
MaxFree == 4         \* requests received in one behaviour of FreeSpec
MaxSolo == 5         \* requests received in one behaviour of SoloSpec
MaxSoloTime == 10    \* the clock of SoloSpec stops advancing at this value
MaxLongTime == 7     \* the clock of LongSpec stops advancing at this value

\* ------------------------------------------------------------- constants
RATE_LIMIT == 2                  \* main.ts:10 (50), scaled
RATE_WINDOW == 4                 \* main.ts:11 (30000), scaled
MsPerSec == 2                    \* main.ts:57, main.ts:296 (1000), scaled
STATIC_CACHE_MAX_AGE == 31536000 \* main.ts:6
DYNAMIC_CACHE_MAX_AGE == 3600    \* main.ts:7
SweepInterval == RATE_WINDOW \div 2  \* main.ts:68

\* ---------------------------------------------------------------- inputs
\* A request's headers are a function from the (lower-case) names of the
\* headers it carries to their values.  The value of x-forwarded-for is the
\* list of its comma-separated values, the value of accept-encoding the set
\* of codings it names.
NoHeaders == [n \in {} |-> ""]
Hdr(name, value) == [n \in {name} |-> value]
ForwardedAB == Hdr("x-forwarded-for", <<"a", "b">>)
ForwardedEmpty == Hdr("x-forwarded-for", <<"">>)
RealB == Hdr("x-real-ip", "b")
Gzip == Hdr("accept-encoding", {"gzip", "br"})
Brotli == Hdr("accept-encoding", {"br"})
Request(headers, path) == [headers |-> headers, path |-> path]
\* The requests a client may send to the full handler.
RequestInputs ==
    { Request(ForwardedAB @@ Gzip, "/widget-config"),
      Request(ForwardedAB @@ Brotli, "/widget-config"),
      Request(ForwardedAB @@ RealB @@ Gzip, "/"),
      Request(ForwardedAB @@ Gzip, "/assets/app.js"),
      Request(RealB, "/favicon.ico"),
      Request(ForwardedEmpty @@ RealB @@ Gzip, "/index.html"),
      Request(Gzip, "/unknown") }
\* The requests of a burst: two identities, one route without suspension.
BurstInputs ==
    { Request(ForwardedAB, "/unknown"),
      Request(RealB, "/unknown") }

\* Requests that differ in the headers the identity is derived from.
RealEmpty == Hdr("x-real-ip", "")
IdentInputs ==
    { Request(NoHeaders, "/unknown"),
      Request(Gzip, "/unknown"),
      Request(ForwardedEmpty @@ RealEmpty, "/unknown"),
      Request(ForwardedEmpty @@ RealB, "/unknown"),
      Request(ForwardedAB @@ RealB, "/unknown") }

\* The requests of one identity.
SoloInputs == { Request(ForwardedAB, "/unknown") }

\* Math.ceil(x / k) for k > 0 and any integer x
Ceil(x, k) == -((-x) \div k)

\* ------------------------------------------------------- rateLimitStore
\* The Map is a function whose domain is the set of keys it holds.
MapSet(store, ip, e) ==
    [k \in (DOMAIN store) \cup {ip} |-> IF k = ip THEN e ELSE store[k]]

\* main.ts:32-33 and main.ts:37-38: a new window for ip starts at t.
NewWindow(store, ip, t) ==
    [store |-> MapSet(store, ip, [count |-> 1, timestamp |-> t]),
     info  |-> [allowed |-> TRUE, remaining |-> RATE_LIMIT - 1,
                reset |-> t + RATE_WINDOW]]

\* The rejection that counts the rejected request.
Rejected_Counted(store, ip) ==
    [store |-> MapSet(store, ip, [store[ip] EXCEPT !.count = @ + 1]),
     info  |-> [allowed |-> FALSE, remaining |-> 0,
                reset |-> store[ip].timestamp + RATE_WINDOW]]

\* main.ts:42: the request is rejected, the table is left alone.
Rejected(store, ip) ==
    [store |-> store,
     info  |-> [allowed |-> FALSE, remaining |-> 0,
                reset |-> store[ip].timestamp + RATE_WINDOW]]

\* main.ts:45-51: the entry of ip is incremented in place and stored.
Incremented(store, ip) ==
    LET entry == [count |-> store[ip].count + 1,
                  timestamp |-> store[ip].timestamp] IN
    [store |-> MapSet(store, ip, entry),
     info  |-> [allowed |-> TRUE, remaining |-> RATE_LIMIT - entry.count,
                reset |-> entry.timestamp + RATE_WINDOW]]

\* Variants of checkRateLimit with one plausible slip each.
\* The limit test lets one request too many through.
checkRateLimit_OffByOne(store, ip, t) ==
    IF ip \notin DOMAIN store THEN NewWindow(store, ip, t)
    ELSE IF t - store[ip].timestamp > RATE_WINDOW THEN NewWindow(store, ip, t)
    ELSE IF store[ip].count > RATE_LIMIT THEN Rejected(store, ip)
    ELSE Incremented(store, ip)

\* The incremented entry is not written back to the table.
checkRateLimit_LostUpdate(store, ip, t) ==
    IF ip \notin DOMAIN store THEN NewWindow(store, ip, t)
    ELSE IF t - store[ip].timestamp > RATE_WINDOW THEN NewWindow(store, ip, t)
    ELSE IF store[ip].count >= RATE_LIMIT THEN Rejected(store, ip)
    ELSE [Incremented(store, ip) EXCEPT !.store = store]

\* remaining is computed from the count before the increment.
checkRateLimit_StaleRemaining(store, ip, t) ==
    IF ip \notin DOMAIN store THEN NewWindow(store, ip, t)
    ELSE IF t - store[ip].timestamp > RATE_WINDOW THEN NewWindow(store, ip, t)
    ELSE IF store[ip].count >= RATE_LIMIT THEN Rejected(store, ip)
    ELSE [Incremented(store, ip) EXCEPT
             !.info.remaining = RATE_LIMIT - store[ip].count]

\* reset is computed from the time of the call in every admitted branch.
checkRateLimit_ResetFromNow(store, ip, t) ==
    IF ip \notin DOMAIN store THEN NewWindow(store, ip, t)
    ELSE IF t - store[ip].timestamp > RATE_WINDOW THEN NewWindow(store, ip, t)
    ELSE IF store[ip].count >= RATE_LIMIT THEN Rejected(store, ip)
    ELSE [Incremented(store, ip) EXCEPT !.info.reset = t + RATE_WINDOW]

\* The limiter that looks at the count before it looks at the age.
checkRateLimit_CountFirst(store, ip, t) ==
    IF ip \notin DOMAIN store THEN NewWindow(store, ip, t)
    ELSE IF store[ip].count >= RATE_LIMIT THEN Rejected(store, ip)
    ELSE IF t - store[ip].timestamp > RATE_WINDOW THEN NewWindow(store, ip, t)
    ELSE Incremented(store, ip)

\* The limiter that forgets the other identities at every call.
checkRateLimit_Alone(store, ip, t) ==
    LET own == [k \in (DOMAIN store) \cap {ip} |-> store[k]] IN
    IF ip \notin DOMAIN own THEN NewWindow(own, ip, t)
    ELSE IF t - own[ip].timestamp > RATE_WINDOW THEN NewWindow(own, ip, t)
    ELSE IF own[ip].count >= RATE_LIMIT THEN Rejected(own, ip)
    ELSE Incremented(own, ip)

\* checkRateLimit(ip) called at clock value t on table store: the table
\* after the call and the decision returned.
checkRateLimit(store, ip, t) ==
    IF ip \notin DOMAIN store THEN NewWindow(store, ip, t)
    ELSE IF t - store[ip].timestamp > RATE_WINDOW THEN NewWindow(store, ip, t)
    ELSE IF store[ip].count >= RATE_LIMIT THEN Rejected(store, ip)
    ELSE Incremented(store, ip)

\* The cleanup with the sweep interval in the place of the window.
cleanup_Interval(store, t) ==
    [k \in {ip \in DOMAIN store : ~(t - store[ip].timestamp > SweepInterval)}
        |-> store[k]]

\* The cleanup that keeps an entry for two windows.
cleanup_TwoWindows(store, t) ==
    [k \in {ip \in DOMAIN store :
                ~(t - store[ip].timestamp > 2 * RATE_WINDOW)}
        |-> store[k]]

\* The cleanup that empties the table.
cleanup_All(store, t) == [k \in {} |-> store[k]]

\* The body of the setInterval callback run at clock value t.
cleanup(store, t) ==
    [k \in {ip \in DOMAIN store : ~(t - store[ip].timestamp > RATE_WINDOW)}
        |-> store[k]]

\* ------------------------------------------------------------- responses
Response(status, text, headers) ==
    [status |-> status, body |-> [encoding |-> "identity", text |-> text],
     headers |-> headers]

\* new Response(body, init) with a string body and no content-type in init
\* gets the content type of a string body.
DefaultTextType == Hdr("content-type", "text/plain;charset=UTF-8")

CacheControlPublic(age) == <<"public, max-age=", age>>
NoStore == <<"no-store">>

\* headers.set(name, value) on Headers h
HeadersSet(h, name, value) == Hdr(name, value) @@ h

\* A variant that reports the reset time in clock units, not in seconds.
addRateLimitHeaders_Millis(headers, rateLimitInfo) ==
    HeadersSet(
      HeadersSet(
        HeadersSet(headers, "x-ratelimit-limit", RATE_LIMIT),
        "x-ratelimit-remaining", rateLimitInfo.remaining),
      "x-ratelimit-reset", rateLimitInfo.reset)

addRateLimitHeaders(headers, rateLimitInfo) ==
    HeadersSet(
      HeadersSet(
        HeadersSet(headers, "x-ratelimit-limit", RATE_LIMIT),
        "x-ratelimit-remaining", rateLimitInfo.remaining),
      "x-ratelimit-reset", Ceil(rateLimitInfo.reset, MsPerSec))

\* A variant that builds the compressed response with headers of its own.
compressResponse_FreshHeaders(response) ==
    [status  |-> response.status,
     body    |-> [encoding |-> "gzip", text |-> response.body.text],
     headers |-> HeadersSet(
                   HeadersSet(NoHeaders, "content-encoding", "gzip"),
                   "content-length", <<"gzip-length", response.body.text>>)]

\* compressResponse(response) when neither response.text() nor gzip throws.
\* The compressed length is a function of the body, kept symbolic.
compressResponse(response) ==
    [status  |-> response.status,
     body    |-> [encoding |-> "gzip", text |-> response.body.text],
     headers |-> HeadersSet(
                   HeadersSet(response.headers, "content-encoding", "gzip"),
                   "content-length", <<"gzip-length", response.body.text>>)]

\* The identity with x-real-ip preferred to x-forwarded-for.
clientIPOf_RealFirst(headers) ==
    IF "x-real-ip" \in DOMAIN headers /\ headers["x-real-ip"] # ""
    THEN headers["x-real-ip"]
    ELSE IF "x-forwarded-for" \in DOMAIN headers
            /\ headers["x-forwarded-for"][1] # ""
    THEN headers["x-forwarded-for"][1]
    ELSE "unknown"

\* req.headers.get("x-forwarded-for")?.split(',')[0] ||
\* req.headers.get("x-real-ip") || "unknown"
clientIPOf(headers) ==
    IF "x-forwarded-for" \in DOMAIN headers
       /\ headers["x-forwarded-for"][1] # ""
    THEN headers["x-forwarded-for"][1]
    ELSE IF "x-real-ip" \in DOMAIN headers /\ headers["x-real-ip"] # ""
    THEN headers["x-real-ip"]
    ELSE "unknown"

\* req.headers.get('accept-encoding')?.includes('gzip') ?? false
acceptsGzipOf(headers) ==
    IF "accept-encoding" \in DOMAIN headers
    THEN "gzip" \in headers["accept-encoding"]
    ELSE FALSE

\* url.pathname.startsWith("/assets/")
StartsWithAssets(path) == path \in {"/assets/app.js"}
\* url.pathname.match(/\.(ico|png|svg|webmanifest)$/)
HasStaticExtension(path) == path \in {"/favicon.ico"}

\* ----------------------------------------------------------------- state
VARIABLES
    now,             \* Date.now()
    rateLimitStore,  \* the Map of main.ts:12
    sweepDue,        \* clock value at which the setInterval timer is due
    pending,         \* requests suspended at main.ts:284, in order of receipt
    req,             \* the requests resumed from main.ts:284, in that order:
                     \* position in the handler and locals
    nDecided         \* number of checkRateLimit calls made so far

vars == <<now, rateLimitStore, sweepDue, pending, req, nDecided>>

Largest(S) == CHOOSE n \in S : \A m \in S : m <= n
Requests == 1 .. Largest({MaxReq, MaxBurst, MaxLong, MaxIdent, MaxFree, MaxSolo})

NoInfo == [allowed |-> FALSE, remaining |-> -1, reset |-> -1]
NoResponse == Response(0, "", NoHeaders)
\* What the limiter call of a request saw and did (history, not program
\* state): its rank among all calls, the clock value it read, and the entry
\* of the identity right after the call.  The field answered of a request
\* is the number of limiter calls made when its response was returned.
NoDecision == [seq |-> 0, at |-> -1, count |-> 0, windowStart |-> -1]
IdleRequest ==
    [pc |-> "idle", headers |-> NoHeaders, path |-> "", clientIP |-> "",
     rateLimitInfo |-> NoInfo, response |-> NoResponse,
     decision |-> NoDecision, trace |-> <<>>, inOrder |-> TRUE,
     answered |-> 0]

EmptyStore == [ip \in {} |-> [count |-> 0, timestamp |-> 0]]

\* The tables left behind at clock value 0 by earlier requests of identity
\* "a" that have all been answered (BurstSpec reaches each of them).
WarmStores ==
    { MapSet(EmptyStore, "a", [count |-> n, timestamp |-> 0]) :
        n \in 1 .. RATE_LIMIT }

InitWith(stores) ==
    /\ now = 0
    /\ rateLimitStore \in stores
    /\ sweepDue = SweepInterval
    /\ pending = <<>>
    /\ req = [r \in Requests |-> IdleRequest]
    /\ nDecided = 0

\* The state after the module has been loaded: main.ts:12, main.ts:61-68.
Init == InitWith({EmptyStore})

\* The server when the requests under observation start to arrive: it is
\* fresh, or it has answered earlier requests.
WarmInit == InitWith({EmptyStore} \cup WarmStores)

\* ----------------------------------------------------------------- clock
\* Time passes between callbacks.  Timers fire on time: the clock does not
\* pass the instant at which the cleanup is due before the cleanup has run.
TickUntil(horizon) ==
    /\ now < horizon
    /\ now < sweepDue
    /\ now' = now + 1
    /\ UNCHANGED <<rateLimitStore, sweepDue, pending, req, nDecided>>

Tick == TickUntil(MaxTime)

\* Time passes, whether the cleanup has run or not.
TickFreeUntil(horizon) ==
    /\ now < horizon
    /\ now' = now + 1
    /\ UNCHANGED <<rateLimitStore, sweepDue, pending, req, nDecided>>

TickFree == TickFreeUntil(MaxTime)

TickSolo == TickFreeUntil(MaxSoloTime)

TickLong == TickUntil(MaxLongTime)

\* The setInterval callback of main.ts:61-68.
Sweep ==
    /\ now >= sweepDue
    /\ rateLimitStore' = cleanup(rateLimitStore, now)
    /\ sweepDue' = sweepDue + SweepInterval
    /\ UNCHANGED <<now, pending, req, nDecided>>

\* The body of the callback run at an arbitrary point between two segments
\* of the handler.
SweepAny ==
    /\ rateLimitStore' = cleanup(rateLimitStore, now)
    /\ UNCHANGED <<now, sweepDue, pending, req, nDecided>>

\* --------------------------------------------------------------- handler
\* main.ts:279-284: the handler starts and suspends at the await of
\* Deno.readDir(".").next(), outside the try block.
ReceiveFrom(max, inputs) ==
    /\ Len(pending) + Cardinality({r \in Requests : req[r].pc # "idle"}) < max
    /\ \E i \in inputs : pending' = Append(pending, i)
    /\ UNCHANGED <<now, rateLimitStore, sweepDue, req, nDecided>>

Receive == ReceiveFrom(MaxReq, RequestInputs)

ReceiveBurst == ReceiveFrom(MaxBurst, BurstInputs)

ReceiveLong == ReceiveFrom(MaxLong, BurstInputs)

ReceiveIdent == ReceiveFrom(MaxIdent, IdentInputs)

ReceiveFree == ReceiveFrom(MaxFree, BurstInputs)

ReceiveSolo == ReceiveFrom(MaxSolo, SoloInputs)

\* The await of main.ts:284 completes for the k-th suspended request, which
\* becomes request Slot.  inOrder: no request received earlier is still
\* suspended there.
Slot == 1 + Cardinality({r \in Requests : req[r].pc # "idle"})
Resumed(k) ==
    [IdleRequest EXCEPT !.pc = "readDir", !.headers = pending[k].headers,
                        !.path = pending[k].path, !.trace = <<"Received">>,
                        !.inOrder = (k = 1)]
Remove(seq, k) == SubSeq(seq, 1, k - 1) \o SubSeq(seq, k + 1, Len(seq))

\* main.ts:284 throws or rejects: the error is raised outside the try block
\* and leaves the handler.
ReadDirFails(k) ==
    /\ k \in 1 .. Len(pending)
    /\ req' = [req EXCEPT ![Slot] = [Resumed(k) EXCEPT
                    !.pc = "escaped", !.trace = Append(@, "Escaped")]]
    /\ pending' = Remove(pending, k)
    /\ UNCHANGED <<now, rateLimitStore, sweepDue, nDecided>>

\* The result of main.ts:287-291 for request q in the current state.
Checked(q) ==
    checkRateLimit(rateLimitStore, clientIPOf(q.headers), now)

\* Request q after main.ts:287-291, given the result c of the limiter.
AfterCheck(q, c) ==
    LET ip == clientIPOf(q.headers) IN
    [q EXCEPT
        !.clientIP = ip,
        !.rateLimitInfo = c.info,
        !.decision = [seq |-> nDecided + 1, at |-> now,
                      count |-> c.store[ip].count,
                      windowStart |-> c.store[ip].timestamp],
        !.trace = Append(@, "RateLimitChecked")]

\* main.ts:293-304: the limiter rejected the request.  Date.now() is read
\* a second time for Retry-After; the clock may have advanced by then.
RateLimitedResponse(info, t) ==
    Response(429, "Rate limit exceeded",
        addRateLimitHeaders(
            Hdr("content-type", "text/plain") @@
            Hdr("retry-after", Ceil(info.reset - t, MsPerSec)),
            info))

RateLimitedUntil(k, horizon) ==
    /\ k \in 1 .. Len(pending)
    /\ LET c == Checked(Resumed(k)) IN
       /\ ~c.info.allowed
       /\ \E d \in 0 .. MaxSkew :
            /\ now + d <= horizon
            /\ now' = now + d
            /\ req' = [req EXCEPT ![Slot] = [AfterCheck(Resumed(k), c) EXCEPT
                  !.pc = "sent", !.answered = nDecided + 1,
                  !.response = RateLimitedResponse(c.info, now'),
                  !.trace = @ \o <<"Rejected", "Sent">>]]
       /\ rateLimitStore' = c.store
    /\ pending' = Remove(pending, k)
    /\ nDecided' = nDecided + 1
    /\ UNCHANGED sweepDue

RateLimited(k) == RateLimitedUntil(k, MaxTime)

RateLimitedLong(k) == RateLimitedUntil(k, MaxLongTime)

RateLimitedSolo(k) == RateLimitedUntil(k, MaxSoloTime)

\* The k-th suspended request after main.ts:287-291.
CheckedRequest(k) == AfterCheck(Resumed(k), Checked(Resumed(k)))

\* main.ts:306-307 onwards: the limiter admitted the k-th suspended request,
\* whose path satisfies the route.  next is the request after the
\* synchronous segment.
Admitted(k, next) ==
    /\ Checked(Resumed(k)).info.allowed
    /\ req' = [req EXCEPT ![Slot] = next]
    /\ rateLimitStore' = Checked(Resumed(k)).store
    /\ pending' = Remove(pending, k)
    /\ nDecided' = nDecided + 1
    /\ UNCHANGED <<now, sweepDue>>

IsConfigPath(path) == path = "/widget-config"
IsIndexPath(path) == path = "/" \/ path = "/index.html"
IsAssetPath(path) == StartsWithAssets(path) \/ HasStaticExtension(path)

\* main.ts:310-325: the response is built; with gzip accepted the handler
\* suspends in compressResponse, otherwise it returns the response.
ConfigResponse(info) ==
    Response(200, "JSON.stringify(WIDGET_CONFIG)",
        addRateLimitHeaders(
            Hdr("content-type", "application/json") @@
            Hdr("cache-control", CacheControlPublic(DYNAMIC_CACHE_MAX_AGE)) @@
            Hdr("x-content-type-options", "nosniff") @@
            Hdr("access-control-allow-origin", "*") @@
            Hdr("access-control-allow-methods", "GET, OPTIONS") @@
            Hdr("access-control-allow-headers", "Content-Type"),
            info))

AfterConfig(q) ==
    [q EXCEPT
        !.response = ConfigResponse(q.rateLimitInfo),
        !.pc = IF acceptsGzipOf(q.headers) THEN "compressConfig" ELSE "sent",
        !.answered = IF acceptsGzipOf(q.headers) THEN 0 ELSE q.decision.seq,
        !.trace = @ \o (IF acceptsGzipOf(q.headers)
                        THEN <<"Routed", "ConfigServed">>
                        ELSE <<"Routed", "ConfigServed", "Uncompressed",
                               "Sent">>)]

ServeConfig(k) ==
    /\ k \in 1 .. Len(pending)
    /\ IsConfigPath(pending[k].path)
    /\ Admitted(k, AfterConfig(CheckedRequest(k)))

\* main.ts:333-335: the handler suspends at Deno.readTextFile.
AfterStartIndex(q) ==
    [q EXCEPT !.pc = "readIndex", !.trace = @ \o <<"Routed">>]

StartIndex(k) ==
    /\ k \in 1 .. Len(pending)
    /\ ~IsConfigPath(pending[k].path)
    /\ IsIndexPath(pending[k].path)
    /\ Admitted(k, AfterStartIndex(CheckedRequest(k)))

\* main.ts:349-355: the handler suspends at serveDir.
AfterStartAsset(q) ==
    [q EXCEPT !.pc = "serveDir", !.trace = @ \o <<"Routed">>]

StartAsset(k) ==
    /\ k \in 1 .. Len(pending)
    /\ ~IsConfigPath(pending[k].path)
    /\ ~IsIndexPath(pending[k].path)
    /\ IsAssetPath(pending[k].path)
    /\ Admitted(k, AfterStartAsset(CheckedRequest(k)))

\* main.ts:376-386
NotFoundResponse(info) ==
    Response(404, "Not Found",
        addRateLimitHeaders(
            Hdr("content-type", "text/plain") @@ Hdr("cache-control", NoStore),
            info))

AfterNotFound(q) ==
    [q EXCEPT !.response = NotFoundResponse(q.rateLimitInfo),
              !.pc = "sent", !.answered = q.decision.seq,
              !.trace = @ \o <<"Routed", "NotFound", "Sent">>]

NotFound(k) ==
    /\ k \in 1 .. Len(pending)
    /\ ~IsConfigPath(pending[k].path)
    /\ ~IsIndexPath(pending[k].path)
    /\ ~IsAssetPath(pending[k].path)
    /\ Admitted(k, AfterNotFound(CheckedRequest(k)))

\* main.ts:335-341: readTextFile resolved.
IndexResponse(info) ==
    Response(200, "indexHtml",
        addRateLimitHeaders(
            Hdr("content-type", "text/html; charset=utf-8") @@
            Hdr("cache-control", CacheControlPublic(DYNAMIC_CACHE_MAX_AGE)),
            info))

IndexRead(r) ==
    /\ req[r].pc = "readIndex"
    /\ req' = [req EXCEPT
          ![r].response = IndexResponse(req[r].rateLimitInfo),
          ![r].pc = "sent", ![r].answered = nDecided,
          ![r].trace = @ \o <<"IndexServed", "Uncompressed", "Sent">>]
    /\ UNCHANGED <<now, rateLimitStore, sweepDue, pending, nDecided>>

\* main.ts:344 and main.ts:372
ServerErrorResponse == Response(500, "Server Error", DefaultTextType)

\* main.ts:342-345: readTextFile rejected.
IndexReadFails(r) ==
    /\ req[r].pc = "readIndex"
    /\ req' = [req EXCEPT
          ![r].response = ServerErrorResponse,
          ![r].pc = "sent", ![r].answered = nDecided,
          ![r].trace = @ \o <<"InternalError", "Sent">>]
    /\ UNCHANGED <<now, rateLimitStore, sweepDue, pending, nDecided>>

\* The response serveDir resolves with for a file it found.
ServeDirOkResponse ==
    Response(200, "file", Hdr("content-type", "application/octet-stream"))

\* main.ts:362-367
AssetResponse(path, info) ==
    [ServeDirOkResponse EXCEPT !.headers =
        addRateLimitHeaders(
            HeadersSet(@, "cache-control",
                IF StartsWithAssets(path)
                THEN CacheControlPublic(STATIC_CACHE_MAX_AGE)
                ELSE CacheControlPublic(DYNAMIC_CACHE_MAX_AGE)),
            info)]

\* main.ts:351-369: serveDir resolved with an ok response.
ServeDirOk(r) ==
    /\ req[r].pc = "serveDir"
    /\ req' = [req EXCEPT
          ![r].response = AssetResponse(req[r].path, req[r].rateLimitInfo),
          ![r].pc = IF acceptsGzipOf(req[r].headers)
                    THEN "compressAsset" ELSE "sent",
          ![r].answered = IF acceptsGzipOf(req[r].headers) THEN 0 ELSE nDecided,
          ![r].trace = @ \o (IF acceptsGzipOf(req[r].headers)
                             THEN <<"AssetServed">>
                             ELSE <<"AssetServed", "Uncompressed", "Sent">>)]
    /\ UNCHANGED <<now, rateLimitStore, sweepDue, pending, nDecided>>

\* main.ts:357-360: serveDir resolved with a response that is not ok.
ServeDirNotOk(r) ==
    /\ req[r].pc = "serveDir"
    /\ req' = [req EXCEPT
          ![r].response = Response(404, "Not Found", DefaultTextType),
          ![r].pc = "sent", ![r].answered = nDecided,
          ![r].trace = @ \o <<"NotFound", "Sent">>]
    /\ UNCHANGED <<now, rateLimitStore, sweepDue, pending, nDecided>>

\* main.ts:370-373: serveDir rejected.
ServeDirFails(r) ==
    /\ req[r].pc = "serveDir"
    /\ req' = [req EXCEPT
          ![r].response = ServerErrorResponse,
          ![r].pc = "sent", ![r].answered = nDecided,
          ![r].trace = @ \o <<"InternalError", "Sent">>]
    /\ UNCHANGED <<now, rateLimitStore, sweepDue, pending, nDecided>>

\* main.ts:264-276 resumed after response.text(), then main.ts:325 or 369.
Compressed(r) ==
    /\ req[r].pc \in {"compressConfig", "compressAsset"}
    /\ req' = [req EXCEPT
          ![r].response = compressResponse(req[r].response),
          ![r].pc = "sent", ![r].answered = nDecided,
          ![r].trace = @ \o <<"Compressed", "Sent">>]
    /\ UNCHANGED <<now, rateLimitStore, sweepDue, pending, nDecided>>

\* main.ts:395-401
InternalErrorResponse ==
    Response(500, "Internal Server Error",
        Hdr("content-type", "text/plain") @@ Hdr("cache-control", NoStore))

\* compressResponse rejected in the config path: main.ts:326-329 rethrows
\* to the outer catch, main.ts:388-402.
CompressConfigFails(r) ==
    /\ req[r].pc = "compressConfig"
    /\ req' = [req EXCEPT
          ![r].response = InternalErrorResponse,
          ![r].pc = "sent", ![r].answered = nDecided,
          ![r].trace = @ \o <<"InternalError", "Sent">>]
    /\ UNCHANGED <<now, rateLimitStore, sweepDue, pending, nDecided>>

\* compressResponse rejected in the asset path: main.ts:370-373.
CompressAssetFails(r) ==
    /\ req[r].pc = "compressAsset"
    /\ req' = [req EXCEPT
          ![r].response = ServerErrorResponse,
          ![r].pc = "sent", ![r].answered = nDecided,
          ![r].trace = @ \o <<"InternalError", "Sent">>]
    /\ UNCHANGED <<now, rateLimitStore, sweepDue, pending, nDecided>>

Positions == 1 .. Cardinality(Requests)

Next ==
    \/ Tick
    \/ Sweep
    \/ Receive
    \/ \E k \in Positions : ReadDirFails(k)
    \/ \E k \in Positions : RateLimited(k)
    \/ \E k \in Positions : ServeConfig(k)
    \/ \E k \in Positions : StartIndex(k)
    \/ \E k \in Positions : StartAsset(k)
    \/ \E k \in Positions : NotFound(k)
    \/ \E r \in Requests : IndexRead(r)
    \/ \E r \in Requests : IndexReadFails(r)
    \/ \E r \in Requests : ServeDirOk(r)
    \/ \E r \in Requests : ServeDirNotOk(r)
    \/ \E r \in Requests : ServeDirFails(r)
    \/ \E r \in Requests : Compressed(r)
    \/ \E r \in Requests : CompressConfigFails(r)
    \/ \E r \in Requests : CompressAssetFails(r)

Spec == WarmInit /\ [][Next]_vars

\* Bursts of requests that take the route without suspension points.
BurstNext ==
    \/ Tick
    \/ Sweep
    \/ ReceiveBurst
    \/ \E k \in Positions : ReadDirFails(k)
    \/ \E k \in Positions : RateLimited(k)
    \/ \E k \in Positions : NotFound(k)

BurstSpec == Init /\ [][BurstNext]_vars

\* The same bursts over a span of time longer than one and a half windows.
LongNext ==
    \/ TickLong
    \/ Sweep
    \/ ReceiveLong
    \/ \E k \in Positions : ReadDirFails(k)
    \/ \E k \in Positions : RateLimitedLong(k)
    \/ \E k \in Positions : NotFound(k)

LongSpec == Init /\ [][LongNext]_vars

\* Bursts of requests that carry different identity headers.
IdentNext ==
    \/ Tick
    \/ Sweep
    \/ ReceiveIdent
    \/ \E k \in Positions : ReadDirFails(k)
    \/ \E k \in Positions : RateLimited(k)
    \/ \E k \in Positions : NotFound(k)

IdentSpec == Init /\ [][IdentNext]_vars

\* Bursts of requests with the cleanup run at arbitrary points, or never.
FreeNext ==
    \/ TickFree
    \/ SweepAny
    \/ ReceiveFree
    \/ \E k \in Positions : ReadDirFails(k)
    \/ \E k \in Positions : RateLimited(k)
    \/ \E k \in Positions : NotFound(k)

FreeSpec == Init /\ [][FreeNext]_vars

\* The requests of one identity over several windows, with the cleanup run
\* at arbitrary points.
SoloNext ==
    \/ TickSolo
    \/ SweepAny
    \/ ReceiveSolo
    \/ \E k \in Positions : ReadDirFails(k)
    \/ \E k \in Positions : RateLimitedSolo(k)
    \/ \E k \in Positions : NotFound(k)

SoloSpec == Init /\ [][SoloNext]_vars

\* ------------------------------------------------- history of decisions
Decided(r) == req[r].decision.seq > 0
Earlier(r) ==
    {p \in Requests : /\ Decided(p)
                      /\ req[p].clientIP = req[r].clientIP
                      /\ req[p].decision.seq < req[r].decision.seq}
Latest(S) == CHOOSE p \in S : \A q \in S :
                 req[q].decision.seq <= req[p].decision.seq

\* The fixed window a decision falls in, from the identities and the clock
\* values of the calls alone: an identity's first call opens a window, and
\* so does a call made more than RATE_WINDOW after the start of the window
\* of the identity's previous call.
RECURSIVE WindowOf(_)
WindowOf(r) ==
    IF Earlier(r) = {} THEN req[r].decision.at
    ELSE LET w == WindowOf(Latest(Earlier(r))) IN
         IF req[r].decision.at - w > RATE_WINDOW
         THEN req[r].decision.at ELSE w

\* The number of the request among those of its identity in its window.
RankInWindow(r) ==
    Cardinality({p \in Earlier(r) : WindowOf(p) = WindowOf(r)}) + 1

Admissions(ip, w) ==
    {r \in Requests : /\ Decided(r)
                      /\ req[r].clientIP = ip
                      /\ req[r].rateLimitInfo.allowed
                      /\ req[r].decision.windowStart = w}

\* ---------------------------------------------------------------- claims
\* C1: among the requests of one identity that checkRateLimit admitted into
\* one window (the same windowStart) there are never more than RATE_LIMIT,
\* and no two of them took the same slot: each was returned a different
\* remaining value out of 0 .. RATE_LIMIT - 1.
C1_NoRacePastLimit ==
    \A r \in Requests :
        (Decided(r) /\ req[r].rateLimitInfo.allowed) =>
            LET S == Admissions(req[r].clientIP, req[r].decision.windowStart)
            IN /\ Cardinality(S) <= RATE_LIMIT
               /\ req[r].rateLimitInfo.remaining \in 0 .. RATE_LIMIT - 1
               /\ \A p \in S \ {r} :
                     req[p].rateLimitInfo.remaining
                        # req[r].rateLimitInfo.remaining

\* Two requests of one identity were in flight together, the first was
\* still suspended when the second was decided in the same window, and the
\* second was refused the slot.
C1_Witness ==
    \E r, p \in Requests :
        /\ r # p
        /\ req[r].pc \in {"readIndex", "serveDir", "compressConfig",
                          "compressAsset"}
        /\ req[r].rateLimitInfo.allowed
        /\ req[r].rateLimitInfo.remaining = 0
        /\ Decided(p)
        /\ req[p].clientIP = req[r].clientIP
        /\ req[p].decision.at - req[r].decision.windowStart <= RATE_WINDOW
        /\ ~req[p].rateLimitInfo.allowed
        /\ sweepDue > SweepInterval

\* C2: every entry of the rate-limit table has 1 <= count <= RATE_LIMIT, and
\* the entry a call left behind for its identity had such a count.
C2_CountWithinLimit ==
    /\ \A ip \in DOMAIN rateLimitStore :
          /\ rateLimitStore[ip].count >= 1
          /\ rateLimitStore[ip].count <= RATE_LIMIT
    /\ \A r \in Requests :
          Decided(r) => /\ req[r].decision.count >= 1
                        /\ req[r].decision.count <= RATE_LIMIT

\* An entry is full, a call has been rejected on it and a sweep has run.
C2_Witness ==
    \E r \in Requests :
        /\ Decided(r)
        /\ ~req[r].rateLimitInfo.allowed
        /\ req[r].clientIP \in DOMAIN rateLimitStore
        /\ rateLimitStore[req[r].clientIP].count = RATE_LIMIT
        /\ sweepDue > SweepInterval

\* C3: the first RATE_LIMIT requests of an identity in a window are all
\* admitted, and the k-th of them is returned remaining = RATE_LIMIT - k.
C3_RemainingCountsDown ==
    \A r \in Requests :
        (Decided(r) /\ RankInWindow(r) <= RATE_LIMIT) =>
            /\ req[r].rateLimitInfo.allowed
            /\ req[r].rateLimitInfo.remaining = RATE_LIMIT - RankInWindow(r)

\* An identity has used up a window that started after an earlier window
\* of its own had expired.
C3_Witness ==
    \E r, p \in Requests :
        /\ Decided(r) /\ Decided(p)
        /\ p \in Earlier(r)
        /\ WindowOf(p) < WindowOf(r)
        /\ RankInWindow(r) = RATE_LIMIT
        /\ req[r].rateLimitInfo.remaining = 0

\* C4: every request of an identity after the first RATE_LIMIT ones in a
\* window is rejected: allowed = false, remaining = 0, answered with 429.
C4_RejectedBeyondLimit ==
    \A r \in Requests :
        (Decided(r) /\ RankInWindow(r) > RATE_LIMIT) =>
            /\ ~req[r].rateLimitInfo.allowed
            /\ req[r].rateLimitInfo.remaining = 0
            /\ req[r].pc = "sent"
            /\ req[r].response.status = 429

\* Two requests beyond the limit in one window, the second one at the last
\* instant of the window and after a sweep.
C4_Witness ==
    \E r \in Requests :
        /\ Decided(r)
        /\ RankInWindow(r) = RATE_LIMIT + 2
        /\ req[r].decision.at = WindowOf(r) + RATE_WINDOW
        /\ req[r].response.status = 429
        /\ sweepDue > SweepInterval

\* C5 (as claimed): a request made RATE_WINDOW or more after the start of
\* the window of its identity's previous request is admitted with
\* remaining = RATE_LIMIT - 1 and starts a new window, whatever the count.
C5_ResetAtWindowEnd ==
    \A r \in Requests :
        (/\ Decided(r)
         /\ Earlier(r) # {}
         /\ req[r].decision.at
              - req[Latest(Earlier(r))].decision.windowStart >= RATE_WINDOW)
        => /\ req[r].rateLimitInfo.allowed
           /\ req[r].rateLimitInfo.remaining = RATE_LIMIT - 1
           /\ req[r].decision.windowStart = req[r].decision.at

\* C6 (as claimed): the Retry-After of every 429 response is a number of
\* seconds between 1 and the length of the window in seconds.
C6_RetryAfterInRange ==
    \A r \in Requests :
        (req[r].pc = "sent" /\ req[r].response.status = 429) =>
            /\ "retry-after" \in DOMAIN req[r].response.headers
            /\ req[r].response.headers["retry-after"] >= 1
            /\ req[r].response.headers["retry-after"]
                  <= RATE_WINDOW \div MsPerSec

\* C7: the reset value of every decision is the start of the window the
\* table holds for the identity right after the call plus RATE_WINDOW, and
\* that window is the fixed window the call falls in.
C7_ResetIsWindowEnd ==
    \A r \in Requests :
        Decided(r) =>
            /\ req[r].rateLimitInfo.reset
                  = req[r].decision.windowStart + RATE_WINDOW
            /\ req[r].decision.windowStart = WindowOf(r)

\* One identity got a decision of each kind: admitted into a window that
\* started earlier, rejected, and admitted by a call that reset the entry.
C7_Witness ==
    \E r, p, q \in Requests :
        /\ Decided(r) /\ Decided(p) /\ Decided(q)
        /\ req[r].clientIP = req[p].clientIP
        /\ req[q].clientIP = req[p].clientIP
        /\ req[r].rateLimitInfo.allowed
        /\ req[r].decision.at > req[r].decision.windowStart
        /\ ~req[p].rateLimitInfo.allowed
        /\ p \in Earlier(q)
        /\ req[q].decision.windowStart > req[p].decision.windowStart

\* C8 (as claimed): a request whose handler has finished went through
\* Received, RateLimitChecked, then Rejected or Routed and a handler, and
\* ended in Sent: one limiter call, made first, and one response.
Count(seq, x) == Cardinality({i \in 1 .. Len(seq) : seq[i] = x})
C8_RequestPath ==
    \A r \in Requests :
        req[r].pc \in {"sent", "escaped"} =>
            LET t == req[r].trace IN
            /\ Len(t) >= 4
            /\ t[1] = "Received"
            /\ t[2] = "RateLimitChecked"
            /\ Count(t, "RateLimitChecked") = 1
            /\ t[3] \in {"Rejected", "Routed"}
            /\ t[3] = "Rejected" <=> ~req[r].rateLimitInfo.allowed
            /\ t[3] = "Rejected" => t = <<"Received", "RateLimitChecked",
                                          "Rejected", "Sent">>
            /\ t[Len(t)] = "Sent"
            /\ Count(t, "Sent") = 1
            /\ req[r].response.status # 0

\* C9: a 200 response, a 429 response and the 404 of an unmatched path
\* carry the three rate-limit headers, with the limit, and the remaining
\* and reset (in seconds, rounded up) of the request's own decision.
IsUnmatchedPath(path) ==
    ~IsConfigPath(path) /\ ~IsIndexPath(path) /\ ~IsAssetPath(path)
C9_RateLimitHeaders ==
    \A r \in Requests :
        (/\ req[r].pc = "sent"
         /\ \/ req[r].response.status \in {200, 429}
            \/ req[r].response.status = 404 /\ IsUnmatchedPath(req[r].path))
        => LET h == req[r].response.headers IN
           /\ {"x-ratelimit-limit", "x-ratelimit-remaining",
                "x-ratelimit-reset"} \subseteq DOMAIN h
           /\ h["x-ratelimit-limit"] = RATE_LIMIT
           /\ h["x-ratelimit-remaining"] = req[r].rateLimitInfo.remaining
           /\ h["x-ratelimit-reset"] * MsPerSec >= req[r].rateLimitInfo.reset
           /\ (h["x-ratelimit-reset"] - 1) * MsPerSec
                 < req[r].rateLimitInfo.reset
           /\ req[r].rateLimitInfo.reset
                 = req[r].decision.windowStart + RATE_WINDOW
           /\ req[r].rateLimitInfo.remaining =
                 IF req[r].rateLimitInfo.allowed
                 THEN RATE_LIMIT - req[r].decision.count ELSE 0

\* A request was answered 200 after a suspension during which a later
\* request of its identity was decided and changed the identity's entry;
\* its reset time is not a whole number of seconds.
C9_Witness ==
    \E r, p \in Requests :
        /\ req[r].pc = "sent" /\ req[r].response.status = 200
        /\ Decided(p)
        /\ req[p].clientIP = req[r].clientIP
        /\ req[p].decision.seq > req[r].decision.seq
        /\ req[p].decision.seq <= req[r].answered
        /\ req[p].decision.count # req[r].decision.count
        /\ req[r].rateLimitInfo.reset % MsPerSec # 0

\* C10 (as claimed): every 500 response has a plain-text body and the
\* header Cache-Control: no-store.
C10_ErrorsNotCached ==
    \A r \in Requests :
        (req[r].pc = "sent" /\ req[r].response.status = 500) =>
            LET h == req[r].response.headers IN
            /\ "content-type" \in DOMAIN h
            /\ h["content-type"] \in {"text/plain",
                                       "text/plain;charset=UTF-8"}
            /\ "cache-control" \in DOMAIN h
            /\ h["cache-control"] = NoStore

\* C11 (as claimed): an error raised at any step of the handling of a
\* request, the steps before the rate-limit check included, stays inside
\* the handler: the request is answered with a 500, and the table keeps
\* its invariant.
ErrorRaised(r) ==
    \E i \in 1 .. Len(req[r].trace) :
        req[r].trace[i] \in {"Escaped", "InternalError"}
C11_ErrorsContained ==
    /\ \A r \in Requests :
          ErrorRaised(r) => /\ req[r].pc = "sent"
                            /\ req[r].response.status = 500
    /\ \A r \in Requests : req[r].pc # "escaped"
    /\ \A ip \in DOMAIN rateLimitStore :
          rateLimitStore[ip].count \in 1 .. RATE_LIMIT

\* C12: a response sent carries Content-Encoding: gzip exactly when its
\* body was compressed; that is exactly when the request names gzip in
\* accept-encoding and the response is the 200 of /widget-config or of a
\* static asset; the compressed response has the status and, apart from
\* Content-Encoding and Content-Length, the headers of the response built
\* for the route.
Uncompressed(r) ==
    IF IsConfigPath(req[r].path)
    THEN ConfigResponse(req[r].rateLimitInfo)
    ELSE AssetResponse(req[r].path, req[r].rateLimitInfo)
CodingHeaders == {"content-encoding", "content-length"}
C12_GzipOnlyWhereApplied ==
    \A r \in Requests :
        req[r].pc = "sent" =>
            LET resp == req[r].response
                gz == resp.body.encoding = "gzip" IN
            /\ gz <=> /\ "content-encoding" \in DOMAIN resp.headers
                       /\ resp.headers["content-encoding"] = "gzip"
            /\ gz <=> /\ acceptsGzipOf(req[r].headers)
                       /\ resp.status = 200
                       /\ \/ IsConfigPath(req[r].path)
                          \/ /\ ~IsIndexPath(req[r].path)
                             /\ IsAssetPath(req[r].path)
            /\ gz => /\ resp.status = Uncompressed(r).status
                      /\ resp.body.text = Uncompressed(r).body.text
                      /\ DOMAIN resp.headers =
                            DOMAIN Uncompressed(r).headers \cup CodingHeaders
                      /\ \A n \in DOMAIN Uncompressed(r).headers
                                     \ CodingHeaders :
                            resp.headers[n] = Uncompressed(r).headers[n]

\* A compressed asset response has been sent, and so has the index
\* document, uncompressed, to a request that names gzip.
C12_Witness ==
    \E r, p \in Requests :
        /\ req[r].pc = "sent" /\ req[p].pc = "sent"
        /\ req[r].response.body.encoding = "gzip"
        /\ IsAssetPath(req[r].path)
        /\ "x-ratelimit-remaining" \in DOMAIN req[r].response.headers
        /\ IsIndexPath(req[p].path)
        /\ acceptsGzipOf(req[p].headers)
        /\ req[p].response.status = 200
        /\ req[p].response.body.encoding = "identity"

\* C13 (as stated): the cleanup fires every RATE_WINDOW / 2 and removes
\* the entries older than RATE_WINDOW, so that the table never holds an
\* entry whose age, now - timestamp, is more than one and a half windows.
Age(ip) == now - rateLimitStore[ip].timestamp
C13_GoneAfterWindowAndHalf ==
    \A ip \in DOMAIN rateLimitStore : Age(ip) <= RATE_WINDOW + SweepInterval

\* The time by which the clock has passed the instant the cleanup is due
\* without the callback having run.
SweepDelay == IF now > sweepDue THEN now - sweepDue ELSE 0

\* C13 (amended): the cleanup is due every RATE_WINDOW / 2; when it has run,
\* no entry older than RATE_WINDOW (at the time of that run) is left in the
\* table, so that the age of an entry never exceeds one and a half windows
\* by more than the delay of the cleanup that is due.
C13_GoneAfterWindowAndHalfAndDelay ==
    /\ sweepDue % SweepInterval = 0
    /\ \A ip \in DOMAIN rateLimitStore :
          /\ Age(ip) <= RATE_WINDOW + SweepInterval + SweepDelay
          /\ rateLimitStore[ip].timestamp >= sweepDue - SweepInterval - RATE_WINDOW

\* An entry as old as one and a half windows is in the table at the instant
\* the cleanup is due.
C13_Witness ==
    /\ now = sweepDue
    /\ \E ip \in DOMAIN rateLimitStore : Age(ip) = RATE_WINDOW + SweepInterval

\* C14 (as stated): the identity passed to the limiter is the first value of
\* x-forwarded-for when the request carries that header, otherwise the value
\* of x-real-ip, otherwise "unknown"; the requests without either header
\* share one entry, and at most RATE_LIMIT of them are admitted per window.
Carries(r, name) == name \in DOMAIN req[r].headers
Anonymous(r) == ~Carries(r, "x-forwarded-for") /\ ~Carries(r, "x-real-ip")
AnonymousAdmitted(w) ==
    {r \in Requests : /\ Decided(r)
                      /\ Anonymous(r)
                      /\ req[r].rateLimitInfo.allowed
                      /\ req[r].decision.windowStart = w}
SharedBucket ==
    /\ \A r \in Requests : Decided(r) /\ Anonymous(r) =>
          req[r].clientIP = "unknown"
    /\ \A w \in 0 .. MaxTime : Cardinality(AnonymousAdmitted(w)) <= RATE_LIMIT
C14_IdentityFromHeaders ==
    /\ \A r \in Requests : Decided(r) =>
          req[r].clientIP =
             IF Carries(r, "x-forwarded-for")
             THEN req[r].headers["x-forwarded-for"][1]
             ELSE IF Carries(r, "x-real-ip")
             THEN req[r].headers["x-real-ip"]
             ELSE "unknown"
    /\ SharedBucket

\* C14 (amended): the identity is the first value of x-forwarded-for when
\* the request carries that header and the value is not empty, otherwise the
\* value of x-real-ip when the request carries it and it is not empty,
\* otherwise "unknown"; the requests without either header share one entry,
\* and at most RATE_LIMIT of them are admitted per window.
C14_IdentityFromFilledHeaders ==
    /\ \A r \in Requests : Decided(r) =>
          LET h == req[r].headers IN
          /\ req[r].clientIP # ""
          /\ IF Carries(r, "x-forwarded-for") /\ h["x-forwarded-for"][1] # ""
             THEN req[r].clientIP = h["x-forwarded-for"][1]
             ELSE IF Carries(r, "x-real-ip") /\ h["x-real-ip"] # ""
             THEN req[r].clientIP = h["x-real-ip"]
             ELSE req[r].clientIP = "unknown"
    /\ SharedBucket

\* Two requests without identity headers, from different clients, have been
\* admitted to the same window, and a request whose x-forwarded-for has an
\* empty first value has been decided under its x-real-ip value.
C14_Witness ==
    /\ \E r, p \in Requests :
          /\ Decided(r) /\ Anonymous(r) /\ req[r].rateLimitInfo.allowed
          /\ Decided(p) /\ Anonymous(p) /\ req[p].rateLimitInfo.allowed
          /\ req[r].headers # req[p].headers
          /\ req[r].decision.windowStart = req[p].decision.windowStart
          /\ req[p].decision.count = RATE_LIMIT
    /\ \E r \in Requests :
          /\ Decided(r)
          /\ Carries(r, "x-forwarded-for")
          /\ req[r].headers["x-forwarded-for"][1] = ""
          /\ req[r].clientIP = req[r].headers["x-real-ip"]
          /\ req[r].clientIP = "b"

\* C15: a call of the limiter that rejects the request leaves the whole
\* table as it was: the entry of the rejected identity keeps its count and
\* its timestamp, and no entry of another identity is touched.
RejectedNow(r) ==
    /\ req[r].decision.seq = 0
    /\ req'[r].decision.seq = nDecided + 1
    /\ ~req'[r].rateLimitInfo.allowed
C15_RejectionLeavesTable ==
    [][\A r \in Requests : RejectedNow(r) =>
          /\ rateLimitStore' = rateLimitStore
          /\ req'[r].clientIP \in DOMAIN rateLimitStore
          /\ req'[r].decision.count = rateLimitStore[req'[r].clientIP].count
          /\ req'[r].decision.windowStart =
                rateLimitStore[req'[r].clientIP].timestamp]_vars

\* A request has been rejected at a clock value later than the start of the
\* window, which the entry of its identity still carries, next to the entry
\* of another identity.
C15_Witness ==
    \E r \in Requests :
       /\ Decided(r)
       /\ ~req[r].rateLimitInfo.allowed
       /\ req[r].clientIP \in DOMAIN rateLimitStore
       /\ rateLimitStore[req[r].clientIP] =
             [count |-> RATE_LIMIT, timestamp |-> req[r].decision.windowStart]
       /\ req[r].decision.at > req[r].decision.windowStart
       /\ DOMAIN rateLimitStore # {req[r].clientIP}

\* C16: a request yields control only while a file of the static asset
\* source is read or a body is compressed; no request is suspended between
\* its receipt and the decision of the limiter, and the decisions are taken
\* in the order in which the requests were received.
FileOrCompression ==
    {"readIndex", "serveDir", "compressConfig", "compressAsset"}
C16_DecisionsInReceiptOrder ==
    /\ pending = <<>>
    /\ \A r \in Requests :
          req[r].pc \notin {"idle", "sent", "escaped"} =>
             /\ req[r].pc \in FileOrCompression
             /\ Decided(r)
    /\ \A r \in Requests : Decided(r) => req[r].inOrder

\* C17: the cleanup never removes an entry whose window is still in effect
\* (age <= RATE_WINDOW), and the decisions of the limiter (allowed,
\* remaining, reset) are those of a table that is never cleaned, whenever the
\* cleanup runs.
Unswept(r) ==
    [allowed |-> RankInWindow(r) <= RATE_LIMIT,
     remaining |-> IF RankInWindow(r) <= RATE_LIMIT
                   THEN RATE_LIMIT - RankInWindow(r) ELSE 0,
     reset |-> WindowOf(r) + RATE_WINDOW]
DecisionsUnswept ==
    \A r \in Requests : Decided(r) => req[r].rateLimitInfo = Unswept(r)
LiveEntriesKept ==
    \A ip \in (DOMAIN rateLimitStore) \ (DOMAIN rateLimitStore') :
       now - rateLimitStore[ip].timestamp > RATE_WINDOW
C17_SweepInvisible == []DecisionsUnswept /\ [][LiveEntriesKept]_vars

\* The cleanup has removed the entry of an identity, and a request has
\* opened a new window for an identity that had a window before.
C17_Witness ==
    /\ \E r \in Requests :
          Decided(r) /\ req[r].clientIP \notin DOMAIN rateLimitStore
    /\ \E r \in Requests :
          /\ Decided(r)
          /\ Earlier(r) # {}
          /\ RankInWindow(r) = 1

\* C18: the decision for a request of an identity, and the entry of the
\* identity, depend on the clock and on the identity's own earlier requests
\* only: a call of the limiter returns what it returns on the table without
\* the other identities, it leaves the entries of the other identities as
\* they are, and an entry in the table is the window and the count (capped
\* at RATE_LIMIT) of the identity's latest request.
Identities == {"a", "b", "unknown"}
Only(store, ip) == [k \in (DOMAIN store) \cap {ip} |-> store[k]]
DecidedNow(r) ==
    /\ req[r].decision.seq = 0
    /\ req'[r].decision.seq = nDecided + 1
OwnCallOnly ==
    \A r \in Requests : DecidedNow(r) =>
       LET ip == req'[r].clientIP
           c == checkRateLimit(Only(rateLimitStore, ip), ip, now)
       IN /\ req'[r].rateLimitInfo = c.info
          /\ Only(rateLimitStore', ip) = c.store
          /\ \A other \in Identities \ {ip} :
                Only(rateLimitStore', other) = Only(rateLimitStore, other)
RequestsOf(ip) == {r \in Requests : Decided(r) /\ req[r].clientIP = ip}
OwnEntryOnly ==
    \A ip \in DOMAIN rateLimitStore :
       /\ RequestsOf(ip) # {}
       /\ LET last == Latest(RequestsOf(ip)) IN
          /\ rateLimitStore[ip].timestamp = WindowOf(last)
          /\ rateLimitStore[ip].count =
                IF RankInWindow(last) <= RATE_LIMIT
                THEN RankInWindow(last) ELSE RATE_LIMIT
C18_IdentitiesIsolated == []OwnEntryOnly /\ [][OwnCallOnly]_vars

\* Requests of two identities have been decided in turn, all in the same
\* span of time: one identity has been rejected while the other, called
\* before and after, is still being admitted.
C18_Witness ==
    \E r, p, q \in Requests :
       /\ Decided(r) /\ Decided(p) /\ Decided(q)
       /\ req[r].clientIP = "a" /\ ~req[r].rateLimitInfo.allowed
       /\ req[p].clientIP = "b" /\ req[q].clientIP = "a"
       /\ req[q].decision.seq < req[p].decision.seq
       /\ req[p].decision.seq < req[r].decision.seq
       /\ req[p].rateLimitInfo.allowed
       /\ req[p].rateLimitInfo.remaining = RATE_LIMIT - 1
       /\ {"a", "b"} \subseteq DOMAIN rateLimitStore

\* C19: an identity that has been rejected is admitted again by the first
\* request it makes more than RATE_WINDOW after the start of the window in
\* which it was rejected, however many requests of it were rejected in
\* between; that request opens a new window.
Expired(p, r) ==
    req[r].decision.at > req[p].decision.windowStart + RATE_WINDOW
FirstAfterLockout(p, r) ==
    /\ Decided(p) /\ Decided(r)
    /\ ~req[p].rateLimitInfo.allowed
    /\ p \in Earlier(r)
    /\ Expired(p, r)
    /\ \A q \in Earlier(r) :
          req[q].decision.seq > req[p].decision.seq => ~Expired(p, q)
C19_NoPermanentLockout ==
    \A p, r \in Requests : FirstAfterLockout(p, r) =>
       /\ req[r].rateLimitInfo.allowed
       /\ req[r].rateLimitInfo.remaining = RATE_LIMIT - 1
       /\ req[r].decision.windowStart = req[r].decision.at
       /\ req[r].decision.count = 1

\* An identity rejected at the very end of a window is admitted by its next
\* request, made right after the end.
C19_Witness ==
    \E q, r \in Requests :
       /\ FirstAfterLockout(q, r)
       /\ req[q].decision.at = req[q].decision.windowStart + RATE_WINDOW
       /\ req[r].decision.at = req[q].decision.at + 1
       /\ req[r].rateLimitInfo.allowed

\* C20: in any interval of time of length RATE_WINDOW at most
\* 2 * RATE_LIMIT requests of one identity are admitted, whatever requests,
\* clock ticks and cleanups came before.
AdmittedWithin(ip, t) ==
    {r \in Requests : /\ Decided(r)
                      /\ req[r].clientIP = ip
                      /\ req[r].rateLimitInfo.allowed
                      /\ req[r].decision.at \in t .. t + RATE_WINDOW}
C20_BurstBounded ==
    \A ip \in Identities : \A t \in 0 .. MaxSoloTime :
       Cardinality(AdmittedWithin(ip, t)) <= 2 * RATE_LIMIT

\* A burst across the boundary of two windows: more than RATE_LIMIT requests
\* of an identity admitted in an interval of length RATE_WINDOW, the table
\* being cleaned in between, and a third window opened later.
C20_Witness ==
    /\ \E t \in 0 .. MaxSoloTime :
          Cardinality(AdmittedWithin("a", t)) > RATE_LIMIT
    /\ \E r \in Requests :
          /\ Decided(r)
          /\ req[r].decision.windowStart > 2 * RATE_WINDOW
          /\ req[r].rateLimitInfo.allowed

TypeOK ==
    /\ now \in 0 .. Largest({MaxTime, MaxLongTime, MaxSoloTime})
    /\ nDecided \in 0 .. Cardinality(Requests)
    /\ \A r \in Requests : req[r].response.status \in {0, 200, 404, 429, 500}

====
